---- MODULE Spec2Model ----
(***************************************************************************)
(* youtube_upload/main.py: the upload orchestration of youtube-upload.     *)
(*                                                                         *)
(* Text is a sequence of string tokens (a token is one or more characters) *)
(* so that concatenation and substitution are sequence operations.  A      *)
(* Python value that may be None is a record [given, val]: None is         *)
(* [given |-> FALSE, val |-> <<>>], the string s is [given |-> TRUE,       *)
(* val |-> s].                                                             *)
(***************************************************************************)
EXTENDS Integers, Sequences, FiniteSets, TLC

\* Bounds of the model.
MaxFiles == 3
MaxCallbacks == 2

None == [given |-> FALSE, val |-> <<>>]
Some(s) == [given |-> TRUE, val |-> s]

\* Python truth of an optional string: None and "" are falsy.
Truthy(o) == o.given /\ o.val # <<>>

\* `o or default` of Python, on an optional string.
OrElse(o, default) == IF Truthy(o) THEN o.val ELSE default

\* ------------------------------------------------------------------------
\* Exceptions and exit codes

NoException == "none"

\* The table of main.py; the oauth2client classes by their class name.
EXIT_CODES ==
    ( "OptionsMissing" :> 2 @@
      "InvalidCategory" :> 3 @@
      "AuthenticationError" :> 4 @@
      "FlowExchangeError" :> 4 @@
      "AccessTokenCredentialsError" :> 5 @@
      "NotImplementedError" :> 6 )

\* The code an exception outside the table ends the process with.
DEFAULT_EXIT_CODE == 1

\* lib.catch_exceptions(EXIT_CODES, main, argv) followed by sys.exit.
catch_exceptions(exit_codes, e) ==
    IF e = NoException THEN 0
    ELSE IF e \in DOMAIN exit_codes THEN exit_codes[e]
    ELSE DEFAULT_EXIT_CODE

\* What the authenticator may raise instead of returning.
AuthExceptions == {"FlowExchangeError", "AccessTokenCredentialsError", "IOError"}

\* What the vendor upload call may raise instead of returning.
UploadExceptions == {"AccessTokenCredentialsError", "NotImplementedError", "IOError"}

\* ------------------------------------------------------------------------
\* Text helpers

Digit == <<"0", "1", "2", "3", "4", "5", "6", "7", "8", "9">>

\* str(n) / "{0}".format(n) of a natural number: its decimal digits.
RECURSIVE Str(_)
Str(n) == IF n < 10 THEN <<Digit[n + 1]>>
          ELSE Str(n \div 10) \o <<Digit[(n % 10) + 1]>>

\* lib.to_utf8: the text re-encoded, the same characters.
to_utf8(s) == s

\* str.decode("string-escape") over the tokens "\\" (one backslash), "n",
\* "x" and plain characters: \n is a newline, \\ a backslash, \x needs two
\* hex digits (none of the plain characters here is one) and a trailing
\* backslash is an error.
RECURSIVE string_escape_ok(_)
string_escape_ok(s) ==
    IF s = <<>> THEN TRUE
    ELSE IF Head(s) # "\\" THEN string_escape_ok(Tail(s))
    ELSE IF Len(s) = 1 THEN FALSE
    ELSE IF s[2] = "x" THEN FALSE
    ELSE string_escape_ok(Tail(Tail(s)))

RECURSIVE string_escape(_)
string_escape(s) ==
    IF s = <<>> THEN <<>>
    ELSE IF Head(s) # "\\" THEN <<Head(s)>> \o string_escape(Tail(s))
    ELSE IF s[2] = "n" THEN <<"\n">> \o string_escape(Tail(Tail(s)))
    ELSE IF s[2] = "\\" THEN <<"\\">> \o string_escape(Tail(Tail(s)))
    ELSE <<"\\", s[2]>> \o string_escape(Tail(Tail(s)))

\* A format string as str.format parses it: literal text and replacement
\* fields.
Lit(t) == [field |-> FALSE, text |-> t]
Field(name) == [field |-> TRUE, text |-> name]

\* str.format(**ns) raises KeyError on a field that ns does not have.
format_ok(template, ns) ==
    \A k \in 1..Len(template) :
        template[k].field => template[k].text \in DOMAIN ns

RECURSIVE format(_, _)
format(template, ns) ==
    IF template = <<>> THEN <<>>
    ELSE (IF Head(template).field THEN ns[Head(template).text]
          ELSE <<Head(template).text>>) \o format(Tail(template), ns)

WATCH_VIDEO_URL == <<Lit("https://www.youtube.com/watch?v="), Field("id")>>

\* ------------------------------------------------------------------------
\* Categories

\* youtube_upload.categories.IDS: category name to numeric identifier.
IDS == ( <<"Film & Animation">> :> 1 @@ <<"Music">> :> 10 @@ <<"Education">> :> 27 )

\* Mutant: a category that is not in the table is looked up leniently and
\* gives no identifier instead of raising.
get_category_id_lenient(category) ==
    IF Truthy(category) /\ category.val \in DOMAIN IDS
    THEN [raised |-> NoException, value |-> Some(Str(IDS[category.val]))]
    ELSE [raised |-> NoException, value |-> None]

\* A category that is not in the table raises InvalidCategory; no category
\* gives None, a known one its identifier as text.
get_category_id(category) ==
    IF Truthy(category)
    THEN IF category.val \in DOMAIN IDS
         THEN [raised |-> NoException, value |-> Some(Str(IDS[category.val]))]
         ELSE [raised |-> "InvalidCategory", value |-> None]
    ELSE [raised |-> NoException, value |-> None]

\* ------------------------------------------------------------------------
\* Progress reporters

\* Mutant: every type but 'progressbar' reports on the console.
get_progress_info_console_default(progress_type, progressbar_present) ==
    IF progress_type = "progressbar" /\ progressbar_present
    THEN [callback |-> "bar", finish |-> "bar.finish"]
    ELSE IF progress_type # "progressbar"
    THEN [callback |-> "console", finish |-> "lambda"]
    ELSE [callback |-> "None", finish |-> "lambda"]

\* The ProgressInfo of get_progress_info: which callback and which finish.
get_progress_info(progress_type, progressbar_present) ==
    IF progress_type = "progressbar" /\ progressbar_present
    THEN [callback |-> "bar", finish |-> "bar.finish"]
    ELSE IF progress_type = "console"
    THEN [callback |-> "console", finish |-> "lambda"]
    ELSE [callback |-> "None", finish |-> "lambda"]

\* round(completed * 100.0 / total_size) formatted with {0:0.0f}.
console_percent(total_size, completed) ==
    Str((200 * completed + total_size) \div (2 * total_size))

\* ------------------------------------------------------------------------
\* Inputs

PATHS == <<"a.flv", "b.flv", "c.flv", "d.flv">>

DEFAULT_TITLE_TEMPLATE ==
    <<Field("title"), Lit(" ["), Field("n"), Lit("/"), Field("total"), Lit("]")>>

TitleInputs == {None, Some(<<>>), Some(<<"T">>)}
TemplateInputs ==
    { DEFAULT_TITLE_TEMPLATE,
      <<Field("total"), Lit("-"), Field("n")>>,
      <<Field("title"), Field("part")>> }
CategoryInputs == {None, Some(<<"Music">>), Some(<<"Musik">>)}
DescriptionInputs == {None, Some(<<"a", "\\", "n">>), Some(<<"a", "\\", "x">>)}
ProgressTypeInputs == {"progress", "progressbar", "console"}
VideoIds == {"idA", "idB"}

VARIABLES
    options,        \* the parsed options
    args,           \* the positional arguments: the video paths
    progressbar,    \* whether the progressbar library was imported
    pc,             \* where run_main is
    youtube,        \* the API handle: "unset", "resource" or "None"
    index,          \* the loop index of run_main
    progress,       \* the ProgressInfo of the current upload_video call
    bar_started,    \* whether the current bar has been started
    completed,      \* bytes the current upload has reported so far
    request_body,   \* the request body of the current upload_video call
    video_id,       \* what the last upload call returned
    events,         \* history: calls made and lines written, in order
    exc,            \* the exception that ended the run
    failed_at,      \* history: the stage that raised it
    exit_code       \* the process exit code, -1 while running

vars == <<options, args, progressbar, pc, youtube, index, progress,
          bar_started, completed, request_body, video_id, events, exc,
          failed_at, exit_code>>

NoProgress == [callback |-> "None", finish |-> "lambda"]
NoBody == [title |-> <<>>, description |-> <<>>, categoryId |-> None]

Event(kind, i, data) == [ev |-> kind, index |-> i, data |-> data]

Init ==
    /\ options \in [ title : TitleInputs,
                     title_template : TemplateInputs,
                     category : CategoryInputs,
                     description : DescriptionInputs,
                     progress_type : ProgressTypeInputs ]
    /\ \E n \in 0..MaxFiles : args = SubSeq(PATHS, 1, n)
    /\ progressbar \in BOOLEAN
    /\ pc = "run_main"
    /\ youtube = "unset"
    /\ index = 0
    /\ progress = NoProgress
    /\ bar_started = FALSE
    /\ completed = 0
    /\ request_body = NoBody
    /\ video_id = ""
    /\ events = <<>>
    /\ exc = NoException
    /\ failed_at = "none"
    /\ exit_code = -1

\* ------------------------------------------------------------------------
\* upload_video, up to the vendor call

\* Mutant: n is the zero-based index.
title_ns_zero_based(title, total_videos, idx) ==
    [title |-> title, n |-> Str(idx), total |-> Str(total_videos)]

\* The substitution values of the title template.
title_ns(title, total_videos, idx) ==
    [title |-> title, n |-> Str(idx + 1), total |-> Str(total_videos)]

complete_title_raises(opts, total_videos, idx) ==
    /\ total_videos > 1
    /\ ~format_ok(opts.title_template,
                  title_ns(to_utf8(opts.title.val), total_videos, idx))

\* The template is applied only when there is more than one video.
complete_title(opts, total_videos, idx) ==
    IF total_videos > 1
    THEN format(opts.title_template,
                title_ns(to_utf8(opts.title.val), total_videos, idx))
    ELSE to_utf8(opts.title.val)

description_raises(opts) ==
    ~string_escape_ok(to_utf8(OrElse(opts.description, <<>>)))

build_request_body(opts, total_videos, idx) ==
    [ title |-> complete_title(opts, total_videos, idx),
      description |-> string_escape(to_utf8(OrElse(opts.description, <<>>))),
      categoryId |-> get_category_id(opts.category).value ]

\* Mutant: the category is looked up for the videos after the first only.
upload_video_raises_after_first(opts, total_videos, idx) ==
    IF description_raises(opts) THEN "ValueError"
    ELSE IF complete_title_raises(opts, total_videos, idx) THEN "KeyError"
    ELSE IF idx > 0 THEN get_category_id(opts.category).raised
    ELSE NoException

\* The first exception the statements before the vendor call raise, in
\* statement order, or NoException.
upload_video_raises(opts, total_videos, idx) ==
    IF description_raises(opts) THEN "ValueError"
    ELSE IF complete_title_raises(opts, total_videos, idx) THEN "KeyError"
    ELSE get_category_id(opts.category).raised

start_upload_line(video_path, title) ==
    <<"Start upload: ", video_path, " (">> \o title \o <<")\n">>

video_url_line(id) ==
    <<"Video URL ">> \o format(WATCH_VIDEO_URL, [id |-> <<id>>]) \o <<"\n">>

\* What upload_video writes and calls once the request body is built.
upload_video_begin_events(idx, video_path, body) ==
    << Event("stdout", idx, start_upload_line(video_path, body.title)),
       Event("upload_call", idx, <<video_path>> \o body.title) >>

\* The size, in chunks, the vendor reports for every file.
total_size == MaxCallbacks + 1

\* ------------------------------------------------------------------------
\* Control

\* Mutant: an exception of upload_video is caught per file and the loop
\* goes on to the next video.
Raise_continue(e, stage) ==
    /\ exc' = e
    /\ failed_at' = stage
    /\ IF stage \in {"build", "upload", "finish"} /\ index + 1 < Len(args)
       THEN /\ pc' = "upload_video"
            /\ index' = index + 1
            /\ UNCHANGED exit_code
       ELSE /\ pc' = "done"
            /\ exit_code' = catch_exceptions(EXIT_CODES, e)
            /\ UNCHANGED index

\* An exception leaves run_main and main; the process exits with its code.
Raise(e, stage) ==
    /\ exc' = e
    /\ failed_at' = stage
    /\ exit_code' = catch_exceptions(EXIT_CODES, e)
    /\ pc' = "done"
    /\ UNCHANGED index

\* Mutant: the loop stops one video short.
Iterate_one_short(i) ==
    IF i < Len(args) - 1
    THEN /\ pc' = "upload_video"
         /\ index' = i
         /\ UNCHANGED <<exc, failed_at, exit_code>>
    ELSE /\ pc' = "done"
         /\ exit_code' = catch_exceptions(EXIT_CODES, NoException)
         /\ UNCHANGED <<index, exc, failed_at>>

\* The head of `for index, video_path in enumerate(args)`.
Iterate(i) ==
    IF i < Len(args)
    THEN /\ pc' = "upload_video"
         /\ index' = i
         /\ UNCHANGED <<exc, failed_at, exit_code>>
    ELSE /\ pc' = "done"
         /\ exit_code' = catch_exceptions(EXIT_CODES, NoException)
         /\ UNCHANGED <<index, exc, failed_at>>

\* Mutant: an option is missing only when it is None.
missing_only_none(opts) == {opt \in {"title"} : ~opts[opt].given}

\* The required options that are not given: only the title is required.
missing(opts) == {opt \in {"title"} : ~Truthy(opts[opt])}

CheckRequiredOptions ==
    /\ pc = "run_main"
    /\ IF missing(options) # {}
       THEN /\ events' = Append(events, Event("stdout", 0, <<"Usage">>))
            /\ Raise("OptionsMissing", "options")
       ELSE /\ pc' = "get_resource"
            /\ UNCHANGED <<events, index, exc, failed_at, exit_code>>
    /\ UNCHANGED <<options, args, progressbar, youtube, progress,
                   bar_started, completed, request_body, video_id>>

\* Mutant: the handle is used without being tested.
GetResourceReturns_unchecked(handle) ==
    /\ pc = "get_resource"
    /\ youtube' = handle
    /\ events' = Append(events, Event("get_resource", 0, <<>>))
    /\ Iterate(0)
    /\ UNCHANGED <<options, args, progressbar, progress, bar_started,
                   completed, request_body, video_id>>

\* get_resource returns: a usable handle starts the loop, a falsy one
\* raises AuthenticationError.
GetResourceReturns(handle) ==
    /\ pc = "get_resource"
    /\ youtube' = handle
    /\ events' = Append(events, Event("get_resource", 0, <<>>))
    /\ IF handle = "resource"
       THEN Iterate(0)
       ELSE Raise("AuthenticationError", "auth")
    /\ UNCHANGED <<options, args, progressbar, progress, bar_started,
                   completed, request_body, video_id>>

GetResourceRaises(e) ==
    /\ pc = "get_resource"
    /\ events' = Append(events, Event("get_resource", 0, <<>>))
    /\ Raise(e, "auth")
    /\ UNCHANGED <<options, args, progressbar, youtube, progress,
                   bar_started, completed, request_body, video_id>>

UploadVideoBegin ==
    /\ pc = "upload_video"
    /\ LET e == upload_video_raises(options, Len(args), index)
           body == build_request_body(options, Len(args), index)
       IN IF e # NoException
          THEN /\ Raise(e, "build")
               /\ UNCHANGED <<progress, bar_started, completed,
                              request_body, events>>
          ELSE /\ progress' = get_progress_info(options.progress_type, progressbar)
               /\ bar_started' = FALSE
               /\ completed' = 0
               /\ request_body' = body
               /\ events' = events \o
                      upload_video_begin_events(index, args[index + 1], body)
               /\ pc' = "upload"
               /\ UNCHANGED <<index, exc, failed_at, exit_code>>
    /\ UNCHANGED <<options, args, progressbar, youtube, video_id>>

\* The vendor call reports a chunk: progress.callback(total_size, completed).
ProgressCallback ==
    /\ pc = "upload"
    /\ progress.callback # "None"
    /\ completed < MaxCallbacks
    /\ completed' = completed + 1
    /\ IF progress.callback = "bar"
       THEN /\ bar_started' = TRUE
            /\ events' = Append(events, Event("callback", index, <<>>))
       ELSE /\ events' = events \o
                  << Event("callback", index, <<>>),
                     Event("stdout", index,
                           console_percent(total_size, completed + 1)
                               \o <<" %\n">>) >>
            /\ UNCHANGED bar_started
    /\ UNCHANGED <<options, args, progressbar, pc, youtube, index, progress,
                   request_body, video_id, exc, failed_at, exit_code>>

UploadReturns(id) ==
    /\ pc = "upload"
    /\ video_id' = id
    /\ events' = Append(events, Event("upload_return", index, <<id>>))
    /\ pc' = "finish"
    /\ UNCHANGED <<options, args, progressbar, youtube, index, progress,
                   bar_started, completed, request_body, exc, failed_at,
                   exit_code>>

UploadRaises(e) ==
    /\ pc = "upload"
    /\ events' = Append(events, Event("upload_raise", index, <<e>>))
    /\ Raise(e, "upload")
    /\ UNCHANGED <<options, args, progressbar, youtube, progress,
                   bar_started, completed, request_body, video_id>>

\* progress.finish() returns; upload_video returns the identifier and
\* run_main writes the watch URL and goes on to the next video.
ProgressFinishReturns ==
    /\ pc = "finish"
    /\ events' = events \o
           << Event("finish", index, <<>>),
              Event("stdout", index, video_url_line(video_id)) >>
    /\ Iterate(index + 1)
    /\ UNCHANGED <<options, args, progressbar, youtube, progress,
                   bar_started, completed, request_body, video_id>>

\* bar.finish() of a bar that no callback has started updates a bar that
\* has no start time: the library may raise.
ProgressFinishRaises ==
    /\ pc = "finish"
    /\ progress.finish = "bar.finish"
    /\ ~bar_started
    /\ events' = Append(events, Event("finish", index, <<>>))
    /\ Raise("RuntimeError", "finish")
    /\ UNCHANGED <<options, args, progressbar, youtube, progress,
                   bar_started, completed, request_body, video_id>>

Next ==
    \/ CheckRequiredOptions
    \/ \E handle \in {"resource", "None"} : GetResourceReturns(handle)
    \/ \E e \in AuthExceptions : GetResourceRaises(e)
    \/ UploadVideoBegin
    \/ ProgressCallback
    \/ \E id \in VideoIds : UploadReturns(id)
    \/ \E e \in UploadExceptions : UploadRaises(e)
    \/ ProgressFinishReturns
    \/ ProgressFinishRaises

Spec == Init /\ [][Next]_vars

\* ------------------------------------------------------------------------
\* Reading the history

Positions(kind) == {k \in 1..Len(events) : events[k].ev = kind}

IsStartLine(e) == e.ev = "stdout" /\ e.data[1] = "Start upload: "
IsUrlLine(e) == e.ev = "stdout" /\ e.data[1] = "Video URL "
IsPercentLine(e) == e.ev = "stdout" /\ e.data[Len(e.data)] = " %\n"

StartLines == {k \in 1..Len(events) : IsStartLine(events[k])}
UrlLines == {k \in 1..Len(events) : IsUrlLine(events[k])}

\* The positions of the events of kind `kind` made for the file at index i.
Of(kind, i) == {k \in Positions(kind) : events[k].index = i}

FileStages == {"build", "upload", "finish"}

UnknownCategory == Truthy(options.category) /\ options.category.val \notin DOMAIN IDS

\* ------------------------------------------------------------------------
\* C1

\* C1 as stated: when the first of two or more files fails in upload_video,
\* no later file is uploaded or announced and the exit code is the
\* EXIT_CODES entry of the exception's class.
C1_Original ==
    (pc = "done" /\ Len(args) >= 2 /\ failed_at \in FileStages /\ index = 0) =>
        /\ \A k \in 1..Len(events) : events[k].index = 0
        /\ UrlLines = {}
        /\ exc \in DOMAIN EXIT_CODES
        /\ exit_code = EXIT_CODES[exc]

\* C1 amended: once a file has failed in upload_video the run is over, no
\* later file is uploaded and no 'Start upload' or 'Video URL' line is
\* written for one (the failed file has no 'Video URL' line either); the
\* exit code is the EXIT_CODES entry of the exception's class when the
\* class is in the table and the default non-zero code when it is not.
C1_FailureStopsBatch ==
    failed_at \in FileStages =>
        /\ pc = "done"
        /\ exc # NoException
        /\ \A k \in 1..Len(events) : events[k].index <= index
        /\ \A k \in UrlLines : events[k].index < index
        /\ exit_code # 0
        /\ IF exc \in DOMAIN EXIT_CODES
           THEN exit_code = EXIT_CODES[exc]
           ELSE exit_code = DEFAULT_EXIT_CODE

C1_Witness ==
    /\ pc = "done"
    /\ Len(args) >= 2
    /\ index = 0
    /\ failed_at = "upload"
    /\ exc = "NotImplementedError"
    /\ exit_code = 6
    /\ Of("upload_call", 0) # {}

\* ------------------------------------------------------------------------
\* C2

\* The upload calls made so far, in order.
UploadCalls == SelectSeq(events, LAMBDA e : e.ev = "upload_call")

\* C2: the upload calls are made for the input files in argument order,
\* none skipped or repeated; a call is made only after every earlier call
\* has returned its identifier; a run that ends without an exception has
\* made exactly one call per input file.
C2_OneUploadPerFileInOrder ==
    /\ Len(UploadCalls) <= Len(args)
    /\ \A j \in 1..Len(UploadCalls) :
           UploadCalls[j].index = j - 1 /\ UploadCalls[j].data[1] = args[j]
    /\ \A k1, k2 \in Positions("upload_call") :
           k1 < k2 =>
               \E r \in Positions("upload_return") :
                   k1 < r /\ r < k2 /\ events[r].index = events[k1].index
    /\ (pc = "done" /\ exc = NoException) =>
           youtube = "resource" /\ Len(UploadCalls) = Len(args)

C2_Witness ==
    /\ pc = "done"
    /\ exc = NoException
    /\ Len(args) >= 2
    /\ Len(UploadCalls) = Len(args)

\* ------------------------------------------------------------------------
\* C3

\* C3: with the title absent or empty nothing is authenticated or uploaded
\* and the run ends with OptionsMissing, exit code 2.
C3_NoTitleFailsBeforeAuth ==
    ~Truthy(options.title) =>
        /\ Positions("get_resource") = {}
        /\ Positions("upload_call") = {}
        /\ youtube = "unset"
        /\ pc \in {"run_main", "done"}
        /\ pc = "done" => exc = "OptionsMissing" /\ exit_code = 2

C3_Witness ==
    /\ pc = "done"
    /\ options.title = Some(<<>>)
    /\ Len(args) >= 1
    /\ exc = "OptionsMissing"

\* ------------------------------------------------------------------------
\* C4

ReachesCategoryLookup ==
    /\ Truthy(options.title)
    /\ youtube = "resource"
    /\ Len(args) >= 1
    /\ string_escape_ok(OrElse(options.description, <<>>))
    /\ Len(args) > 1 =>
           \A k \in 1..Len(options.title_template) :
               options.title_template[k].field =>
                   options.title_template[k].text \in {"title", "n", "total"}

C5_FinishOncePerUpload ==
    pc = "done" =>
        \A c \in Positions("upload_call") :
            LET i == events[c].index IN
            /\ Cardinality(Of("finish", i)) = 1
            /\ \A f \in Of("finish", i) :
                   /\ c < f
                   /\ \A b \in Of("callback", i) : b < f
                   /\ \A k \in 1..Len(events) : events[k].index > i => f < k

\* ------------------------------------------------------------------------
\* C6

\* C6: every upload call is preceded by exactly one 'Start upload' line of
\* its file; in a finished run a file has exactly one 'Video URL' line when
\* its upload returned and none when it did not; the line follows the
\* upload's return, precedes the next file's 'Start upload' line and
\* carries the returned identifier.
C6_OutputLines ==
    /\ \A c \in Positions("upload_call") :
           LET mine == {k \in StartLines : events[k].data[2] = events[c].data[1]}
           IN Cardinality(mine) = 1 /\ \A k \in mine : k < c
    /\ pc = "done" =>
           \A i \in 0..(Len(args) - 1) :
               LET urls == {k \in UrlLines : events[k].index = i} IN
               /\ Cardinality(urls) = IF Of("upload_return", i) # {} THEN 1 ELSE 0
               /\ \A u \in urls :
                      /\ \A r \in Of("upload_return", i) :
                             r < u /\ events[u].data[3] = events[r].data[1]
                      /\ \A k \in StartLines : events[k].index > i => u < k

\* ------------------------------------------------------------------------
\* C7

\* The title template with {title}, {n} and {total} replaced.
RECURSIVE Substituted(_, _, _, _)
Substituted(template, title, n, total) ==
    IF template = <<>> THEN <<>>
    ELSE LET h == Head(template)
             piece == IF ~h.field THEN <<h.text>>
                      ELSE IF h.text = "title" THEN title
                      ELSE IF h.text = "n" THEN Str(n)
                      ELSE Str(total)
         IN piece \o Substituted(Tail(template), title, n, total)

\* C7: the title submitted for the file at index i is the --title value
\* when there is one file, and the template with title, i+1 and the batch
\* size substituted when there are more; the n of successive upload calls
\* counts 1, 2, ... in input order.
C7_Titles ==
    /\ \A j \in 1..Len(UploadCalls) :
           LET i == UploadCalls[j].index
               sent == Tail(UploadCalls[j].data)
           IN /\ i = j - 1
              /\ sent = IF Len(args) = 1 THEN options.title.val
                        ELSE Substituted(options.title_template,
                                         options.title.val, i + 1, Len(args))
    /\ pc \in {"upload", "finish"} =>
           request_body.title =
               IF Len(args) = 1 THEN options.title.val
               ELSE Substituted(options.title_template, options.title.val,
                                index + 1, Len(args))

C7_Witness ==
    /\ Len(args) = 2
    /\ options.title_template = DEFAULT_TITLE_TEMPLATE
    /\ pc = "upload"
    /\ index = 1
    /\ request_body.title = <<"T", " [", "2", "/", "2", "]">>

\* ------------------------------------------------------------------------
\* C8

\* C8: when the authenticator returns no usable handle the run is over with
\* AuthenticationError, exit code 4, and nothing was done for any file.
C8_NoHandleNoUpload ==
    youtube = "None" =>
        /\ pc = "done"
        /\ exc = "AuthenticationError"
        /\ exit_code = 4
        /\ events = <<Event("get_resource", 0, <<>>)>>
        /\ request_body = NoBody

C8_Witness ==
    /\ youtube = "None"
    /\ Len(args) >= 2
    /\ exit_code = 4

\* ------------------------------------------------------------------------
\* C9

\* C9 as stated: in a batch of several files InvalidCategory is raised only
\* after earlier files have uploaded.
C9_Original ==
    (exc = "InvalidCategory" /\ Len(args) > 1) =>
        /\ index > 0
        /\ \A i \in 0..(index - 1) : Of("upload_return", i) # {}

\* C9 amended: the category is the same for every file of the batch, so
\* InvalidCategory is raised for the first file, before any upload: never
\* for a file at index i > 0, never after an upload.
C9_InvalidCategoryAtFirstFile ==
    exc = "InvalidCategory" =>
        /\ index = 0
        /\ failed_at = "build"
        /\ Positions("upload_call") = {}
        /\ Positions("upload_return") = {}

C9_Witness ==
    /\ exc = "InvalidCategory"
    /\ Len(args) = 3
    /\ index = 0

\* ------------------------------------------------------------------------
\* C10

====
